---- MODULE Spec2Model ----
(***************************************************************************)
(* Model of @tfpkgr/utils: the Obscure class and its obscure() wrapper,    *)
(* stringifyParams, uuidGenerator and generateUniqueId.                    *)
(*                                                                         *)
(* A JavaScript string is a sequence of one-character strings.  A call     *)
(* that throws is a result whose err field names the error.                *)
(***************************************************************************)
EXTENDS Integers, Sequences, FiniteSets

VARIABLES
    pc,             \* position of the call in flight
    _string,        \* Obscure._string
    _start,         \* Obscure._start
    _end,           \* Obscure._end
    _mask,          \* Obscure._mask
    assigned,       \* history: the value last handed to each field
    call,           \* arguments of the obscure()/email()/phone() call
    ret,            \* what the last Obscure operation returned or threw
    params,         \* stringifyParams: Object.entries(params)
    options,        \* stringifyParams: the options argument
    idx,            \* stringifyParams: entries already walked
    keyValuePairs,  \* stringifyParams: the local keyValuePairs
    sret,           \* stringifyParams: the result
    uargs,          \* uuidGenerator: options and the two library uuids
    uret,           \* uuidGenerator: the result
    gargs,          \* generateUniqueId: arguments, clock and random bytes
    gret            \* generateUniqueId: the result

obscureVars == <<_string, _start, _end, _mask, assigned, call, ret>>
paramsVars == <<params, options, idx, keyValuePairs, sret>>
uuidVars == <<uargs, uret>>
idVars == <<gargs, gret>>
vars == <<pc, obscureVars, paramsVars, uuidVars, idVars>>

----------------------------------------------------------------------------
(* Bounds *)

MaxLen == 6          \* longest string handed to obscure(), email(), phone()
MaxObjLen == 6       \* longest string held by a long-lived Obscure object
MaxVisible == 2      \* largest start / end count tried
MaxOptLen == 2       \* longest prefix, suffix or separator of uuidGenerator
MaxIdLen == 3        \* largest length asked of generateUniqueId
MaxArr == 2          \* longest array value of a stringifyParams entry

(* Characters of the bounded strings. *)
Chars == {"1", "+", "-", "@"}
ObjChars == {"1", "@"}
Masks == {<<"*">>, <<"#">>}

StringsUpTo(A, n) == UNION {[1..k -> A] : k \in 0..n}

----------------------------------------------------------------------------
(* JavaScript string primitives *)

Min(a, b) == IF a < b THEN a ELSE b
Max(a, b) == IF a > b THEN a ELSE b

(* String.prototype.slice(from, to): a negative index counts from the end, *)
(* and -0 is 0.                                                            *)
Slice(s, from, to) ==
    LET n == Len(s)
        a == IF from < 0 THEN Max(n + from, 0) ELSE Min(from, n)
        b == IF to < 0 THEN Max(n + to, 0) ELSE Min(to, n)
    IN  IF a >= b THEN <<>> ELSE SubSeq(s, a + 1, b)

(* slice(from) with the end omitted *)
SliceFrom(s, from) == Slice(s, from, Len(s))

RECURSIVE Repeat(_, _)
Repeat(s, n) == IF n <= 0 THEN <<>> ELSE s \o Repeat(s, n - 1)

(* index of the first occurrence of character c in s, 0 when absent *)
RECURSIVE IndexOf(_, _)
IndexOf(s, c) ==
    IF s = <<>> THEN 0
    ELSE IF Head(s) = c THEN 1
    ELSE LET r == IndexOf(Tail(s), c) IN IF r = 0 THEN 0 ELSE r + 1

Includes(s, c) == IndexOf(s, c) # 0

(* String.prototype.split(c) for a one-character separator *)
RECURSIVE Split(_, _)
Split(s, c) ==
    LET i == IndexOf(s, c)
    IN  IF i = 0 THEN <<s>>
        ELSE <<SubSeq(s, 1, i - 1)>> \o Split(SubSeq(s, i + 1, Len(s)), c)

StartsWith(s, p) == Len(p) <= Len(s) /\ SubSeq(s, 1, Len(p)) = p
EndsWith(s, p) == Len(p) <= Len(s) /\ SubSeq(s, Len(s) - Len(p) + 1, Len(s)) = p

RECURSIVE Join(_, _)
Join(parts, sep) ==
    IF parts = <<>> THEN <<>>
    ELSE IF Len(parts) = 1 THEN parts[1]
    ELSE parts[1] \o sep \o Join(Tail(parts), sep)

----------------------------------------------------------------------------
(* Obscure *)

Returned(s) == [err |-> "", val |-> s]
Thrown(e) == [err |-> e, val |-> <<>>]

(* private obscure(str, start, end, mask) *)
obscure(str, start, end, mask) ==
    IF start < 0 \/ end < 0 THEN Thrown("InvalidRange")
    ELSE IF Len(str) <= start + end THEN Returned(str)
    ELSE LET maskedPart == Repeat(mask, Len(str) - start - end)
             visibleStart == Slice(str, 0, start)
             visibleEnd == SliceFrom(str, 0 - end)
         IN  Returned(visibleStart \o maskedPart \o visibleEnd)

(* toString() *)
toString(str, start, end, mask) == obscure(str, start, end, mask)

(* email() *)
email(str, mask) ==
    IF ~Includes(str, "@") THEN obscure(str, 2, 2, mask)
    ELSE LET parts == Split(str, "@")
             localPart == parts[1]
             domain == parts[2]
             maskedLocalPart == obscure(localPart, 2, 2, mask)
         IN  IF maskedLocalPart.err # "" THEN maskedLocalPart
             ELSE Returned(maskedLocalPart.val \o <<"@">> \o domain)

Digits == {"0", "1", "2", "3", "4", "5", "6", "7", "8", "9"}

(* replace(/[^\d+]/g, '') *)
normalizePhone(str) == SelectSeq(str, LAMBDA c : c \in Digits \cup {"+"})

(* /^\+?[1-9]\d{1,14}$/.test(s) *)
phoneRegex(s) ==
    LET d == IF s # <<>> /\ Head(s) = "+" THEN Tail(s) ELSE s
    IN  /\ Len(d) >= 2
        /\ Len(d) <= 15
        /\ d[1] \in Digits \ {"0"}
        /\ \A i \in 2..Len(d) : d[i] \in Digits

(* obscuredPhone[i], zero-based in the source; a read past the end is the  *)
(* value undefined, which += appends as the text "undefined"               *)
CharAt(s, i) ==
    IF i >= 1 /\ i <= Len(s) THEN <<s[i]>>
    ELSE <<"u", "n", "d", "e", "f", "i", "n", "e", "d">>

(* the formatting loop with the index advanced on every character *)
RECURSIVE reformat_everyChar(_, _, _)
reformat_everyChar(str, obscuredPhone, obscuredIndex) ==
    IF str = <<>> THEN <<>>
    ELSE IF Head(str) \in Digits \/ Head(str) = "+"
         THEN CharAt(obscuredPhone, obscuredIndex)
                  \o reformat_everyChar(Tail(str), obscuredPhone, obscuredIndex + 1)
         ELSE <<Head(str)>>
                  \o reformat_everyChar(Tail(str), obscuredPhone, obscuredIndex + 1)

(* the loop that reapplies the original formatting *)
RECURSIVE reformat(_, _, _)
reformat(str, obscuredPhone, obscuredIndex) ==
    IF str = <<>> THEN <<>>
    ELSE IF Head(str) \in Digits \/ Head(str) = "+"
         THEN CharAt(obscuredPhone, obscuredIndex)
                  \o reformat(Tail(str), obscuredPhone, obscuredIndex + 1)
         ELSE <<Head(str)>> \o reformat(Tail(str), obscuredPhone, obscuredIndex)

(* phone() *)
phone(str, mask) ==
    LET normalizedPhone == normalizePhone(str)
    IN  IF ~phoneRegex(normalizedPhone) THEN obscure(str, 2, 2, mask)
        ELSE LET obscuredPhone == obscure(normalizedPhone, 2, 2, mask)
             IN  IF obscuredPhone.err # "" THEN obscuredPhone
                 ELSE Returned(reformat(str, obscuredPhone.val, 1))

----------------------------------------------------------------------------
(* Values the variables of a component hold while another one is checked *)

NoRet == [op |-> "none", err |-> "", val |-> <<>>, num |-> 0]
NoCall == [fn |-> "none", string |-> <<>>, nargs |-> 0,
           start |-> 0, end |-> 0, mask |-> <<"*">>]

IdleObscure ==
    /\ _string = <<>>
    /\ _start = 0
    /\ _end = 0
    /\ _mask = <<"*">>
    /\ assigned = [string |-> <<>>, start |-> 0, end |-> 0, mask |-> <<"*">>]
    /\ call = NoCall
    /\ ret = NoRet

IdleParams ==
    /\ params = [kind |-> "object", entries |-> <<>>]
    /\ options = [separator |-> <<"&">>, arrayType |-> "none",
                  serializeObjects |-> FALSE, returnType |-> "string"]
    /\ idx = 0
    /\ keyValuePairs = <<>>
    /\ sret = [kind |-> "none", err |-> "", str |-> <<>>, pairs |-> <<>>]

IdleUuid ==
    /\ uargs = [name |-> "", namespace |-> "", id |-> <<>>,
                prefix |-> <<>>, suffix |-> <<>>, separator |-> <<>>]
    /\ uret = <<>>

IdleId ==
    /\ gargs = [length |-> 0, prefix |-> <<>>, suffix |-> <<>>,
                now |-> 0, randomBytes |-> <<>>]
    /\ gret = [err |-> "", coreId |-> <<>>, val |-> <<>>]

----------------------------------------------------------------------------
(* The Obscure object: constructor, accessors and render methods *)

Visible == (0 - 1)..MaxVisible
ObjStrings == StringsUpTo(ObjChars, MaxObjLen)

Result(op, r) == [op |-> op, err |-> r.err, val |-> r.val, num |-> 0]

(* constructor(string, start, end, mask): the four assignments.  A         *)
(* parameter left out takes the field's initializer (0, 0, '*'): the field *)
(* initializers run before the parameter defaults are evaluated.           *)
Construct(string, start, end, mask) ==
    /\ _string' = string
    /\ _start' = start
    /\ _end' = end
    /\ _mask' = mask
    /\ assigned' = [string |-> string, start |-> start, end |-> end, mask |-> mask]

InitObscure ==
    /\ pc = "object"
    /\ _string \in ObjStrings
    /\ _start \in Visible
    /\ _end \in Visible
    /\ _mask \in Masks
    /\ assigned = [string |-> _string, start |-> _start, end |-> _end, mask |-> _mask]
    /\ call = NoCall
    /\ ret = [NoRet EXCEPT !.op = "new"]
    /\ IdleParams /\ IdleUuid /\ IdleId

SetMask(mask) ==
    /\ pc = "object"
    /\ _mask' = mask
    /\ assigned' = [assigned EXCEPT !.mask = mask]
    /\ ret' = [NoRet EXCEPT !.op = "set"]
    /\ UNCHANGED <<pc, _string, _start, _end, call, paramsVars, uuidVars, idVars>>

GetMask ==
    /\ pc = "object"
    /\ ret' = [NoRet EXCEPT !.op = "get mask", !.val = _mask]
    /\ UNCHANGED <<pc, _string, _start, _end, _mask, assigned, call,
                   paramsVars, uuidVars, idVars>>

SetStart(start) ==
    /\ pc = "object"
    /\ _start' = start
    /\ assigned' = [assigned EXCEPT !.start = start]
    /\ ret' = [NoRet EXCEPT !.op = "set"]
    /\ UNCHANGED <<pc, _string, _end, _mask, call, paramsVars, uuidVars, idVars>>

GetStart ==
    /\ pc = "object"
    /\ ret' = [NoRet EXCEPT !.op = "get start", !.num = _start]
    /\ UNCHANGED <<pc, _string, _start, _end, _mask, assigned, call,
                   paramsVars, uuidVars, idVars>>

(* the end setter writing the start field *)
SetEnd_writesStart(end) ==
    /\ pc = "object"
    /\ _start' = end
    /\ assigned' = [assigned EXCEPT !.end = end]
    /\ ret' = [NoRet EXCEPT !.op = "set"]
    /\ UNCHANGED <<pc, _string, _end, _mask, call, paramsVars, uuidVars, idVars>>

SetEnd(end) ==
    /\ pc = "object"
    /\ _end' = end
    /\ assigned' = [assigned EXCEPT !.end = end]
    /\ ret' = [NoRet EXCEPT !.op = "set"]
    /\ UNCHANGED <<pc, _string, _start, _mask, call, paramsVars, uuidVars, idVars>>

GetEnd ==
    /\ pc = "object"
    /\ ret' = [NoRet EXCEPT !.op = "get end", !.num = _end]
    /\ UNCHANGED <<pc, _string, _start, _end, _mask, assigned, call,
                   paramsVars, uuidVars, idVars>>

SetString(string) ==
    /\ pc = "object"
    /\ _string' = string
    /\ assigned' = [assigned EXCEPT !.string = string]
    /\ ret' = [NoRet EXCEPT !.op = "set"]
    /\ UNCHANGED <<pc, _start, _end, _mask, call, paramsVars, uuidVars, idVars>>

GetString ==
    /\ pc = "object"
    /\ ret' = [NoRet EXCEPT !.op = "get string", !.val = _string]
    /\ UNCHANGED <<pc, _string, _start, _end, _mask, assigned, call,
                   paramsVars, uuidVars, idVars>>

ToString ==
    /\ pc = "object"
    /\ ret' = Result("toString", toString(_string, _start, _end, _mask))
    /\ UNCHANGED <<pc, _string, _start, _end, _mask, assigned, call,
                   paramsVars, uuidVars, idVars>>

Email ==
    /\ pc = "object"
    /\ ret' = Result("email", email(_string, _mask))
    /\ UNCHANGED <<pc, _string, _start, _end, _mask, assigned, call,
                   paramsVars, uuidVars, idVars>>

Phone ==
    /\ pc = "object"
    /\ ret' = Result("phone", phone(_string, _mask))
    /\ UNCHANGED <<pc, _string, _start, _end, _mask, assigned, call,
                   paramsVars, uuidVars, idVars>>

NextObject ==
    \/ \E mask \in Masks : SetMask(mask)
    \/ GetMask
    \/ \E start \in Visible : SetStart(start)
    \/ GetStart
    \/ \E end \in Visible : SetEnd(end)
    \/ GetEnd
    \/ \E string \in ObjStrings : SetString(string)
    \/ GetString
    \/ ToString
    \/ Email
    \/ Phone

----------------------------------------------------------------------------
(* The exported obscure(), obscure.email() and obscure.phone(): each builds *)
(* an Obscure object and renders it once.                                   *)

Strings == StringsUpTo(Chars, MaxLen)

(* obscure(string), obscure(string, start), ... : an argument left out is   *)
(* undefined and takes the constructor's default                            *)
ObscureCalls ==
    {c \in [fn : {"obscure"}, string : Strings, nargs : 1..4,
            start : 0..MaxVisible, end : 0..MaxVisible, mask : Masks] :
        /\ c.nargs < 2 => c.start = 0
        /\ c.nargs < 3 => c.end = 0
        /\ c.nargs < 4 => c.mask = <<"*">>}

NamedCalls ==
    [fn : {"email", "phone"}, string : Strings, nargs : {1},
     start : {0}, end : {0}, mask : {<<"*">>}]

InitObscureFn ==
    /\ pc = "ready"
    /\ call \in ObscureCalls \cup NamedCalls
    /\ _string = <<>>
    /\ _start = 0
    /\ _end = 0
    /\ _mask = <<"*">>
    /\ assigned = [string |-> <<>>, start |-> 0, end |-> 0, mask |-> <<"*">>]
    /\ ret = NoRet
    /\ IdleParams /\ IdleUuid /\ IdleId

(* (string, start?, end?, mask?) => new Obscure(...).toString() *)
ObscureFn ==
    /\ pc = "ready"
    /\ call.fn = "obscure"
    /\ Construct(call.string, call.start, call.end, call.mask)
    /\ ret' = Result("toString", toString(call.string, call.start, call.end, call.mask))
    /\ pc' = "done"
    /\ UNCHANGED <<call, paramsVars, uuidVars, idVars>>

(* email: string => new Obscure(string).email() *)
EmailFn ==
    /\ pc = "ready"
    /\ call.fn = "email"
    /\ Construct(call.string, 0, 0, <<"*">>)
    /\ ret' = Result("email", email(call.string, <<"*">>))
    /\ pc' = "done"
    /\ UNCHANGED <<call, paramsVars, uuidVars, idVars>>

(* phone: string => new Obscure(string).phone() *)
PhoneFn ==
    /\ pc = "ready"
    /\ call.fn = "phone"
    /\ Construct(call.string, 0, 0, <<"*">>)
    /\ ret' = Result("phone", phone(call.string, <<"*">>))
    /\ pc' = "done"
    /\ UNCHANGED <<call, paramsVars, uuidVars, idVars>>

NextObscureFn == ObscureFn \/ EmailFn \/ PhoneFn

(* An Obscure object driven through its accessors and render methods, or   *)
(* one call of an exported function.                                       *)
SpecObscure == (InitObscure \/ InitObscureFn) /\ [][NextObject \/ NextObscureFn]_vars

----------------------------------------------------------------------------
(* Properties of Obscure *)

(* The masking as the documentation words it: the first `start` and the    *)
(* last `end` characters stay, every character between them becomes the    *)
(* mask character; a string no longer than start + end is left alone.      *)
Masked(str, start, end, mask) ==
    IF Len(str) <= start + end THEN str
    ELSE [i \in 1..Len(str) |->
             IF i <= start \/ i > Len(str) - end THEN str[i] ELSE mask[1]]

IsPhoneChar(c) == c \in Digits \cup {"+"}

(* the characters of out at the positions where str holds a digit or '+' *)
RECURSIVE AtPhonePositions(_, _)
AtPhonePositions(str, out) ==
    IF str = <<>> \/ out = <<>> THEN <<>>
    ELSE IF IsPhoneChar(Head(str))
         THEN <<Head(out)>> \o AtPhonePositions(Tail(str), Tail(out))
         ELSE AtPhonePositions(Tail(str), Tail(out))

(* the shape of phone()'s result out for the string str and the mask *)
PhoneShape(str, mask, out) ==
    /\ Len(out) = Len(str)
    /\ IF phoneRegex(normalizePhone(str))
       THEN /\ \A i \in 1..Len(str) : ~IsPhoneChar(str[i]) => out[i] = str[i]
            /\ AtPhonePositions(str, out) = Masked(normalizePhone(str), 2, 2, mask)
       ELSE out = Masked(str, 2, 2, mask)

(* C2 as stated: obscure(str, start, end, mask) with start, end >= 0 keeps *)
(* the first start and last end characters and masks the rest, the result  *)
(* as long as str; a str no longer than start + end comes back unchanged.  *)
C2_ObscureMasksMiddle ==
    (pc = "done" /\ call.fn = "obscure") =>
        /\ ret.err = ""
        /\ Len(ret.val) = Len(call.string)
        /\ ret.val = Masked(call.string, call.start, call.end, call.mask)

(* C5 as stated: email() splits at the first '@' and returns the masked    *)
(* local part, '@', and everything after that first '@'; without an '@'    *)
(* it returns the 2/2 masking of the whole string.                         *)
C5_EmailKeepsWholeDomain ==
    (pc = "done" /\ call.fn = "email") =>
        LET str == call.string
            at == IndexOf(str, "@")
        IN  /\ ret.err = ""
            /\ IF at = 0 THEN ret.val = Masked(str, 2, 2, <<"*">>)
               ELSE ret.val = Masked(SubSeq(str, 1, at - 1), 2, 2, <<"*">>)
                                  \o <<"@">> \o SubSeq(str, at + 1, Len(str))

(* how many digits str holds up to and including position i *)
DigitRank(str, i) == Cardinality({j \in 1..i : str[j] \in Digits})

(* C6 as stated: for a valid phone number with more than four digits,      *)
(* phone() shows the first two and the last two digits, masks every digit  *)
(* between them and keeps a leading '+'.                                   *)
C6_PhoneKeepsTwoDigitsEachSide ==
    (pc = "done" /\ call.fn = "phone"
        /\ phoneRegex(normalizePhone(call.string))
        /\ DigitRank(call.string, Len(call.string)) > 4) =>
        LET str == call.string
            k == DigitRank(str, Len(str))
        IN  /\ ret.err = ""
            /\ Len(ret.val) = Len(str)
            /\ \A i \in 1..Len(str) :
                   IF str[i] \in Digits
                   THEN IF DigitRank(str, i) <= 2 \/ DigitRank(str, i) > k - 2
                        THEN ret.val[i] = str[i]
                        ELSE ret.val[i] = "*"
                   ELSE ret.val[i] = str[i]

----------------------------------------------------------------------------
(* uuidGenerator *)

UuidChars == {"-", "u"}
OptStrings == StringsUpTo(UuidChars, MaxOptLen)
Names == {"n", "m"}
Namespaces == {"s", "t"}

(* uuid.v5(name, namespace): a library call, the same text for the same    *)
(* pair, in the hyphenated layout of a uuid                                *)
v5(name, namespace) == <<name, "-", namespace>>

(* uuid(): a library call, a fresh random uuid *)
RandomUuids == {<<"x", "-", "y">>, <<"y", "-", "x">>}

(* the body of uuidGenerator once id and hash are drawn; an option left    *)
(* out or empty is ''                                                      *)
uuidGenerator(id, hash, prefix, suffix, separator) ==
    LET withPrefix == IF prefix # <<>> THEN prefix \o separator ELSE <<>>
        withHash == IF hash # <<>> THEN withPrefix \o hash \o separator ELSE withPrefix
        withId == IF id # <<>> THEN withHash \o id \o separator ELSE withHash
        withSuffix == IF suffix # <<>> THEN withId \o suffix ELSE withId
        trimmedEnd == IF EndsWith(withSuffix, separator)
                      THEN Slice(withSuffix, 0, 0 - Len(separator))
                      ELSE withSuffix
    IN  IF StartsWith(trimmedEnd, separator)
        THEN SliceFrom(trimmedEnd, Len(separator))
        ELSE trimmedEnd

InitUuid ==
    /\ pc = "ready"
    /\ uargs \in [name : Names, namespace : Namespaces, id : RandomUuids,
                  prefix : OptStrings, suffix : OptStrings, separator : OptStrings]
    /\ uret = <<>>
    /\ IdleObscure /\ IdleParams /\ IdleId

UuidGenerator ==
    /\ pc = "ready"
    /\ uret' = uuidGenerator(uargs.id, v5(uargs.name, uargs.namespace),
                             uargs.prefix, uargs.suffix, uargs.separator)
    /\ pc' = "done"
    /\ UNCHANGED <<uargs, obscureVars, paramsVars, idVars>>

NextUuid == UuidGenerator

SpecUuid == InitUuid /\ [][NextUuid]_vars

(* the non-empty strings of parts, in order *)
NonEmpty(parts) == SelectSeq(parts, LAMBDA s : s # <<>>)

(* C1 as stated: the result is the non-empty components among prefix,      *)
(* hash, random id and suffix, in that order, with the separator between   *)
(* every two adjacent ones.                                                *)
C1_UuidJoinsComponents ==
    pc = "done" =>
        uret = Join(NonEmpty(<<uargs.prefix, v5(uargs.name, uargs.namespace),
                               uargs.id, uargs.suffix>>), uargs.separator)

----------------------------------------------------------------------------
(* generateUniqueId *)

Base36Digits == <<"0", "1", "2", "3", "4", "5", "6", "7", "8", "9",
                  "a", "b", "c", "d", "e", "f", "g", "h", "i", "j", "k", "l", "m",
                  "n", "o", "p", "q", "r", "s", "t", "u", "v", "w", "x", "y", "z">>

(* Number.prototype.toString(36) of a non-negative integer *)
RECURSIVE Base36(_)
Base36(n) ==
    IF n < 36 THEN <<Base36Digits[n + 1]>>
    ELSE Base36(n \div 36) \o <<Base36Digits[(n % 36) + 1]>>

(* padStart(2, '0') *)
PadStart2(s) == IF Len(s) < 2 THEN Repeat(<<"0">>, 2 - Len(s)) \o s ELSE s

(* Array.from(randomBytes).map(b => b.toString(36).padStart(2, '0')).join('') *)
RECURSIVE EncodeBytes(_)
EncodeBytes(bytes) ==
    IF bytes = <<>> THEN <<>>
    ELSE PadStart2(Base36(Head(bytes))) \o EncodeBytes(Tail(bytes))

(* the clock readings and the byte values tried *)
Nows == {0, 35, 36, 1295, 1296}
Bytes == {0, 35, 36, 255}
Affixes == {<<>>, <<"p">>}

(* the body of generateUniqueId for a clock reading and the bytes drawn *)
generateUniqueId(length, prefix, suffix, now, randomBytes) ==
    LET timestamp == Base36(now)
    IN  IF length < Len(timestamp)
        THEN [err |-> "InvalidLength", coreId |-> <<>>, val |-> <<>>]
        ELSE LET randomPart == Slice(EncodeBytes(randomBytes), 0, length)
                 coreId == timestamp \o randomPart
                 parts == (IF prefix # <<>> THEN <<prefix>> ELSE <<>>)
                              \o <<coreId>>
                              \o (IF suffix # <<>> THEN <<suffix>> ELSE <<>>)
             IN  [err |-> "", coreId |-> coreId, val |-> Join(parts, <<"_">>)]

InitId ==
    /\ pc = "ready"
    /\ \E length \in (0 - 1)..MaxIdLen :
           gargs \in [length : {length}, prefix : Affixes, suffix : Affixes,
                      now : Nows, randomBytes : [1..length -> Bytes]]
    /\ gret = [err |-> "", coreId |-> <<>>, val |-> <<>>]
    /\ IdleObscure /\ IdleParams /\ IdleUuid

GenerateUniqueId ==
    /\ pc = "ready"
    /\ gret' = generateUniqueId(gargs.length, gargs.prefix, gargs.suffix,
                                gargs.now, gargs.randomBytes)
    /\ pc' = "done"
    /\ UNCHANGED <<gargs, obscureVars, paramsVars, uuidVars>>

NextId == GenerateUniqueId

SpecId == InitId /\ [][NextId]_vars

(* C7 as stated: a call that does not fail yields timestamp + random part  *)
(* of total length exactly `length`, and the call fails with InvalidLength *)
(* exactly when length is below the number of base-36 digits of the clock. *)
C7_CoreIdHasLength ==
    pc = "done" =>
        /\ gret.err = "InvalidLength" <=> gargs.length < Len(Base36(gargs.now))
        /\ gret.err = "" => Len(gret.coreId) = gargs.length

----------------------------------------------------------------------------
(* stringifyParams *)

(* A value of params: null (or undefined), a boolean, a number, a string,  *)
(* a plain object, or an array of such.                                    *)
Null == [t |-> "null", b |-> FALSE, n |-> 0, s |-> <<>>, a |-> <<>>]
Bool(b) == [Null EXCEPT !.t = "boolean", !.b = b]
Num(n) == [Null EXCEPT !.t = "number", !.n = n]
Str(s) == [Null EXCEPT !.t = "string", !.s = s]
EmptyObject == [Null EXCEPT !.t = "object"]
Arr(a) == [Null EXCEPT !.t = "array", !.a = a]

IsArray(value) == value.t = "array"

(* String(n) for a non-negative integer *)
RECURSIVE NumToString(_)
NumToString(n) ==
    IF n < 10 THEN <<Base36Digits[n + 1]>>
    ELSE NumToString(n \div 10) \o <<Base36Digits[(n % 10) + 1]>>

(* JSON.stringify of the one object modelled, {}; an element of an array  *)
(* is never itself an array here                                           *)
JSONstringify(value) == <<"{", "}">>

normalizeValue(value, allowObjects) ==
    IF value.t = "null" THEN <<>>
    ELSE IF value.t = "boolean"
         THEN IF value.b THEN <<"t", "r", "u", "e">> ELSE <<"f", "a", "l", "s", "e">>
    ELSE IF value.t = "number" THEN NumToString(value.n)
    ELSE IF value.t = "string" THEN value.s
    ELSE IF allowObjects /\ value.t = "object" THEN JSONstringify(value)
    ELSE <<>>

(* encodeURIComponent: letters, digits and - _ . ! ~ * ' ( ) stay, every   *)
(* other character becomes % and the two hex digits of its code            *)
PercentCode ==
    [c \in {",", "&", "=", "{", "}", "[", "]", "%", " ", "+", "@"} |->
        CASE c = "," -> <<"%", "2", "C">>
          [] c = "&" -> <<"%", "2", "6">>
          [] c = "=" -> <<"%", "3", "D">>
          [] c = "{" -> <<"%", "7", "B">>
          [] c = "}" -> <<"%", "7", "D">>
          [] c = "[" -> <<"%", "5", "B">>
          [] c = "]" -> <<"%", "5", "D">>
          [] c = "%" -> <<"%", "2", "5">>
          [] c = " " -> <<"%", "2", "0">>
          [] c = "+" -> <<"%", "2", "B">>
          [] c = "@" -> <<"%", "4", "0">>]

RECURSIVE encodeURIComponent(_)
encodeURIComponent(s) ==
    IF s = <<>> THEN <<>>
    ELSE (IF Head(s) \in DOMAIN PercentCode THEN PercentCode[Head(s)] ELSE <<Head(s)>>)
             \o encodeURIComponent(Tail(s))

(* value.map(val => encodeURIComponent(normalizeValue(val, serializeObjects))) *)
encodeValues(value, serializeObjects) ==
    [i \in 1..Len(value.a) |->
        encodeURIComponent(normalizeValue(value.a[i], serializeObjects))]

(* one pass of the loop body with the comma encoded along with the values *)
entryPairs_encodedComma(key, value, arrayType, serializeObjects) ==
    LET encodedKey == encodeURIComponent(key)
    IN  IF IsArray(value)
        THEN IF arrayType = "exclude" THEN <<>>
             ELSE LET encodedValues == encodeValues(value, serializeObjects)
                  IN  IF arrayType = "comma"
                      THEN <<<<encodedKey, Join(encodedValues, PercentCode[","])>>>>
                      ELSE IF arrayType = "bracket"
                      THEN [i \in 1..Len(encodedValues) |->
                               <<encodedKey \o <<"[", "]">>, encodedValues[i]>>]
                      ELSE [i \in 1..Len(encodedValues) |->
                               <<encodedKey, encodedValues[i]>>]
        ELSE <<<<encodedKey,
                 encodeURIComponent(normalizeValue(value, serializeObjects))>>>>

(* one pass of the loop body: the pairs pushed for the entry [key, value] *)
entryPairs(key, value, arrayType, serializeObjects) ==
    LET encodedKey == encodeURIComponent(key)
    IN  IF IsArray(value)
        THEN IF arrayType = "exclude" THEN <<>>
             ELSE LET encodedValues == encodeValues(value, serializeObjects)
                  IN  IF arrayType = "comma"
                      THEN <<<<encodedKey, Join(encodedValues, <<",">>)>>>>
                      ELSE IF arrayType = "bracket"
                      THEN [i \in 1..Len(encodedValues) |->
                               <<encodedKey \o <<"[", "]">>, encodedValues[i]>>]
                      ELSE [i \in 1..Len(encodedValues) |->
                               <<encodedKey, encodedValues[i]>>]
        ELSE <<<<encodedKey,
                 encodeURIComponent(normalizeValue(value, serializeObjects))>>>>

(* the final join with '&' whatever the separator option says *)
joinPairs_ignoresSeparator(pairs, separator) ==
    Join([i \in 1..Len(pairs) |-> pairs[i][1] \o <<"=">> \o pairs[i][2]], <<"&">>)

(* keyValuePairs.map(([k, v]) => `${k}=${v}`).join(separator) *)
joinPairs(pairs, separator) ==
    Join([i \in 1..Len(pairs) |-> pairs[i][1] \o <<"=">> \o pairs[i][2]], separator)

Failed(e) == [kind |-> "none", err |-> e, str |-> <<>>, pairs |-> <<>>]

(* the inputs tried *)
Keys == {<<"a">>, <<"b", "&">>}
Scalars == {Null, Bool(TRUE), Num(12), Str(<<",">>), EmptyObject}
Elements == {Num(1), Num(2), Str(<<",">>)}
Values == Scalars \cup {Arr(a) : a \in StringsUpTo(Elements, MaxArr)}
Separators == {<<"&">>, <<";">>, <<>>, <<"=">>}

(* Object.entries(params): the keys of an object are distinct, so there   *)
(* are at most as many entries as keys                                     *)
EntryLists ==
    {e \in StringsUpTo([key : Keys, value : Values], Cardinality(Keys)) :
        \A i, j \in 1..Len(e) : i # j => e[i].key # e[j].key}

InitParams ==
    /\ pc = "ready"
    /\ \/ params \in [kind : {"object"}, entries : EntryLists]
       \/ params \in [kind : {"null", "array"}, entries : {<<>>}]
    /\ options \in [separator : Separators,
                    arrayType : {"none", "comma", "bracket", "exclude"},
                    serializeObjects : BOOLEAN,
                    returnType : {"string", "URLSearchParams", "undefined"}]
    /\ idx = 0
    /\ keyValuePairs = <<>>
    /\ sret = [kind |-> "none", err |-> "", str |-> <<>>, pairs |-> <<>>]
    /\ IdleObscure /\ IdleUuid /\ IdleId

(* validateParams, the options and the separator check *)
Validate ==
    /\ pc = "ready"
    /\ IF params.kind # "object"
       THEN /\ sret' = Failed("InvalidParams")
            /\ pc' = "done"
       ELSE IF /\ options.returnType = "string"
               /\ (Len(options.separator) = 0 \/ Includes(options.separator, "="))
       THEN /\ sret' = Failed("InvalidSeparator")
            /\ pc' = "done"
       ELSE /\ sret' = sret
            /\ pc' = "loop"
    /\ UNCHANGED <<params, options, idx, keyValuePairs, obscureVars, uuidVars, idVars>>

(* one iteration of for (const [key, value] of Object.entries(params)) *)
ProcessEntry ==
    /\ pc = "loop"
    /\ idx < Len(params.entries)
    /\ idx' = idx + 1
    /\ keyValuePairs' = keyValuePairs
           \o entryPairs(params.entries[idx + 1].key, params.entries[idx + 1].value,
                         options.arrayType, options.serializeObjects)
    /\ UNCHANGED <<pc, params, options, sret, obscureVars, uuidVars, idVars>>

(* the two returns after the loop *)
Finish ==
    /\ pc = "loop"
    /\ idx = Len(params.entries)
    /\ sret' = IF options.returnType = "URLSearchParams"
               THEN [kind |-> "URLSearchParams", err |-> "", str |-> <<>>,
                     pairs |-> keyValuePairs]
               ELSE [kind |-> "string", err |-> "",
                     str |-> joinPairs(keyValuePairs, options.separator),
                     pairs |-> <<>>]
    /\ pc' = "done"
    /\ UNCHANGED <<params, options, idx, keyValuePairs, obscureVars, uuidVars, idVars>>

NextParams == Validate \/ ProcessEntry \/ Finish

SpecParams == InitParams /\ [][NextParams]_vars

----------------------------------------------------------------------------
(* Properties of stringifyParams *)

RECURSIVE Flatten(_)
Flatten(seqs) == IF seqs = <<>> THEN <<>> ELSE Head(seqs) \o Flatten(Tail(seqs))

Encoded(value) == encodeURIComponent(normalizeValue(value, options.serializeObjects))

(* the 'key=value' renderings one entry contributes, an array under        *)
(* 'comma' joining its encoded elements with glue                          *)
Renderings(entry, glue) ==
    LET k == encodeURIComponent(entry.key)
        elems == entry.value.a
    IN  IF ~IsArray(entry.value) THEN <<k \o <<"=">> \o Encoded(entry.value)>>
        ELSE CASE options.arrayType = "exclude" -> <<>>
               [] options.arrayType = "comma" ->
                      <<k \o <<"=">> \o Join([i \in 1..Len(elems) |-> Encoded(elems[i])], glue)>>
               [] options.arrayType = "bracket" ->
                      [i \in 1..Len(elems) |-> k \o <<"[", "]", "=">> \o Encoded(elems[i])]
               [] options.arrayType = "none" ->
                      [i \in 1..Len(elems) |-> k \o <<"=">> \o Encoded(elems[i])]

(* the whole query string, entry after entry *)
QueryString(glue) ==
    Join(Flatten([i \in 1..Len(params.entries) |-> Renderings(params.entries[i], glue)]),
         options.separator)

ValidSeparator == options.separator # <<>> /\ ~Includes(options.separator, "=")

(* C3: for returnType 'string' and a valid separator the result is the     *)
(* separator-join of the key=value renderings of the entries in entry      *)
(* order: one pair for a non-array, none / one comma-joined pair / one     *)
(* pair per element with key[] / one pair per element for an array under   *)
(* exclude / comma / bracket / none.                                       *)
C3_StringIsJoinedRenderings ==
    (pc = "done" /\ params.kind = "object" /\ options.returnType = "string"
        /\ ValidSeparator) =>
        /\ sret.err = ""
        /\ sret.kind = "string"
        /\ sret.str = QueryString(<<",">>)

(* C3's case: two entries, the first an array of two elements, rendered *)
C3_Witness ==
    /\ pc = "done"
    /\ options.returnType = "string"
    /\ options.separator = <<";">>
    /\ options.arrayType = "none"
    /\ Len(params.entries) = 2
    /\ IsArray(params.entries[1].value)
    /\ Len(params.entries[1].value.a) = 2
    /\ ~IsArray(params.entries[2].value)
    /\ sret.kind = "string"
    /\ Len(keyValuePairs) = 3

(* C4 as stated: a string result, asked for by returnType 'string' or by   *)
(* leaving returnType out, is only produced with a non-empty separator     *)
(* free of '='; with any other separator the call fails with               *)
(* InvalidSeparator.                                                       *)
C4_StringNeedsValidSeparator ==
    (pc = "done" /\ params.kind = "object"
        /\ options.returnType \in {"string", "undefined"}) =>
        /\ sret.kind = "string" => ValidSeparator
        /\ ~ValidSeparator => sret.err = "InvalidSeparator"

HasLongArray == \E i \in 1..Len(params.entries) :
                    IsArray(params.entries[i].value) /\ Len(params.entries[i].value.a) >= 2

IsA12 == params.entries = <<[key |-> <<"a">>, value |-> Arr(<<Num(1), Num(2)>>)]>>

CommaCase ==
    /\ pc = "done"
    /\ params.kind = "object"
    /\ options.returnType = "string"
    /\ options.arrayType = "comma"
    /\ ValidSeparator
    /\ HasLongArray

(* C8 as stated: under 'comma' an array of two or more elements is one     *)
(* pair whose elements are separated by '%2C', and {a: [1, 2]} gives       *)
(* 'a=1%2C2'.                                                              *)
C8_CommaIsPercentEncoded ==
    CommaCase =>
        /\ sret.str = QueryString(<<"%", "2", "C">>)
        /\ IsA12 => sret.str = <<"a", "=", "1", "%", "2", "C", "2">>

(* C8 amended: under 'comma' an array of two or more elements is one pair  *)
(* whose elements are separated by a literal ',', and {a: [1, 2]} gives    *)
(* 'a=1,2'.                                                                *)
C8_CommaIsLiteral ==
    CommaCase =>
        /\ sret.str = QueryString(<<",">>)
        /\ IsA12 => sret.str = <<"a", "=", "1", ",", "2">>

(* C8's case: {a: [1, 2]} stringified under 'comma' *)
C8_Witness == CommaCase /\ IsA12 /\ sret.kind = "string"

====
